---- MODULE Spec2Model ----
(***************************************************************************)
(* Time tracker: the FastAPI server of src/backend/main.py (SQLite store   *)
(* with the tables apps, activity_logs, tracked_identifiers) and the       *)
(* polling loop of src/tracker/tracker.py.                                  *)
(*                                                                         *)
(* Three specifications share the variables:                               *)
(*   Spec        concurrent add_activity requests, one step per SQL        *)
(*               statement that other connections can observe;             *)
(*   SeqSpec     add_activity requests served one after another;           *)
(*   TrackerSpec the tracker loop posting to the server.                   *)
(***************************************************************************)
EXTENDS Integers, Sequences, FiniteSets, TLC

(***************************************************************************)
(* Bounds of the model.                                                    *)
(***************************************************************************)
\* Seconds in a calendar day, scaled down so that runs cross midnight.
DayLen == 4
\* Clock ticks (seconds) that pass while the server of SeqSpec runs.
MaxTicks == 1
\* Seconds after which the tracker loop of TrackerSpec is no longer followed.
MaxElapsed == 8
\* Seconds one loop iteration may take beyond its sleep (sampling, the POST).
MaxLatency == 1
\* add_activity requests accepted over one run of Spec.
MaxServed == 3
\* add_activity requests served over one run of SeqSpec.
MaxSeqCalls == 2

\* The clock at the start of a run: the last second of day 1 (UTC).
StartTime == 2 * DayLen - 1

\* Worker threads of the server handling requests at the same time.
Workers == {"w1", "w2"}

(***************************************************************************)
(* Strings are sequences of characters, so that lower(), "in" and split()   *)
(* are computed.                                                           *)
(***************************************************************************)
chrome_exe == <<"c", "h", "r", "o", "m", "e", ".", "e", "x", "e">>
msedge_exe == <<"m", "s", "e", "d", "g", "e", ".", "e", "x", "e">>
Code_exe == <<"C", "o", "d", "e", ".", "e", "x", "e">>
EmptyStr == <<>>
Unknown == <<"U", "n", "k", "n", "o", "w", "n">>

\* Window titles as Windows reports them.
Title_Docs == <<"D", "o", "c", "s", " ", "-", " ", "C", "h">>
Title_Mail == <<"M", "a", "i", "l">>
Title_Main == <<"m", "a", "i", "n", " ", "-", " ", " ", "C", "o", "d", "e">>

\* getpass.getuser() on the tracked machine, and a second reporting user.
LocalUser == <<"a", "l">>
OtherUser == <<"b", "o">>

\* An identifier of the registry.
Id_Code == <<"C", "o", "d", "e">>

\* str.lower() on the letters the model uses.
LowerChar(c) ==
    CASE c = "C" -> "c"
      [] c = "D" -> "d"
      [] c = "M" -> "m"
      [] c = "U" -> "u"
      [] OTHER -> c

lower(s) == [i \in DOMAIN s |-> LowerChar(s[i])]

\* The first position of sub in s, 0 when it does not occur.
IndexOf(sub, s) ==
    LET At(i) == SubSeq(s, i, i + Len(sub) - 1) = sub
        Places == {i \in 1..(Len(s) - Len(sub) + 1) : At(i)}
    IN IF Places = {} THEN 0 ELSE CHOOSE i \in Places : \A j \in Places : i <= j

\* sub in s
Contains(sub, s) == IndexOf(sub, s) # 0

\* The separator " - " of window titles.
Dash == <<" ", "-", " ">>

\* s.split(" - ")
RECURSIVE split(_)
split(s) ==
    LET i == IndexOf(Dash, s)
    IN IF i = 0 THEN <<s>>
       ELSE <<SubSeq(s, 1, i - 1)>> \o split(SubSeq(s, i + Len(Dash), Len(s)))

\* s.strip()
RECURSIVE strip(_)
strip(s) ==
    IF s = <<>> THEN s
    ELSE IF s[1] = " " THEN strip(Tail(s))
    ELSE IF s[Len(s)] = " " THEN strip(SubSeq(s, 1, Len(s) - 1))
    ELSE s

(***************************************************************************)
(* Clock and calendar.  now is UTC time in seconds, tz the offset of the   *)
(* machine's local zone in seconds.  A date is a day number; its           *)
(* isoformat() text YYYY-MM-DD is ordered and compared as the day number.  *)
(***************************************************************************)
VARIABLES now, tz

DateOf(t) == t \div DayLen
TimeOfDay(t) == t % DayLen

\* datetime.now().date(): the naive local date.
LocalToday(clock, zone) == DateOf(clock + zone)

(***************************************************************************)
(* Timestamps of a request.  A timestamp text is modelled by what          *)
(* datetime.fromisoformat and strptime(ts[:10], "%Y-%m-%d") make of it:    *)
(*   none     the field is absent (None)                                   *)
(*   empty    the empty string                                             *)
(*   iso      fromisoformat parses it: date, time of day, and, when aware, *)
(*            the UTC offset off (a naive timestamp has aware = FALSE)     *)
(*   prefix   fromisoformat rejects it but its first ten characters are a  *)
(*            date, e.g. "2025-09-12 9pm"                                  *)
(*   garbage  neither parses                                               *)
(***************************************************************************)
NoTimestamp == [kind |-> "none"]
EmptyTimestamp == [kind |-> "empty"]
GarbageTimestamp == [kind |-> "garbage"]
IsoTimestamp(d, tod, aware, off) ==
    [kind |-> "iso", date |-> d, tod |-> tod, aware |-> aware, off |-> off]
PrefixTimestamp(d) == [kind |-> "prefix", date |-> d]

\* Python truthiness of Optional[str].
Falsy(ts) == ts.kind \in {"none", "empty"}

\* datetime.now(timezone.utc).isoformat(): an aware timestamp at offset +00:00.
iso_now(clock) == IsoTimestamp(DateOf(clock), TimeOfDay(clock), TRUE, 0)

\* The date of the instant of an aware timestamp in UTC (what astimezone(utc).date()
\* would give); used by no code path of to_date_iso.
UtcDateOfTimestamp(ts) ==
    IF ~ts.aware THEN ts.date
    ELSE DateOf(ts.date * DayLen + ts.tod - ts.off)

to_date_iso_utc(ts, clock, zone) ==
    IF Falsy(ts) THEN LocalToday(clock, zone)
    ELSE IF ts.kind = "iso" THEN UtcDateOfTimestamp(ts)
    ELSE IF ts.kind = "prefix" THEN ts.date
    ELSE LocalToday(clock, zone)

to_date_iso(ts, clock, zone) ==
    IF Falsy(ts) THEN LocalToday(clock, zone)
    ELSE IF ts.kind = "iso" THEN ts.date
    ELSE IF ts.kind = "prefix" THEN ts.date
    ELSE LocalToday(clock, zone)

(***************************************************************************)
(* The SQLite store.  Both tables have INTEGER PRIMARY KEY AUTOINCREMENT   *)
(* and the server never deletes a row of them, so a table is the sequence  *)
(* of its rows and the id of a row is its index.                           *)
(*   apps           rows [user_id, app_name, window_title]                  *)
(*   activity_logs  rows [app_id, activity_date, duration]                  *)
(***************************************************************************)
VARIABLES apps, activity_logs

NaturalKey(a) ==
    [user_id |-> a.user_id, app_name |-> a.app_name, window_title |-> a.window_title]

\* fetchone() of a SELECT with no ORDER BY: the first of the matching rows,
\* given by their ids; 0 is "no row".
FirstIndex(matching) ==
    IF matching = {} THEN 0
    ELSE CHOOSE i \in matching : \A j \in matching : i <= j

\* A schema without UNIQUE(user_id, app_name, window_title): nothing is ignored.
InsertApp_NoUnique(tbl, key) == Append(tbl, key)

\* The INSERT adds no row, whatever the table holds.
InsertApp_Dropped(tbl, key) == tbl

\* INSERT OR IGNORE INTO apps under UNIQUE(user_id, app_name, window_title).
InsertOrIgnoreApp(tbl, key) ==
    IF \E i \in DOMAIN tbl : tbl[i] = key THEN tbl ELSE Append(tbl, key)

\* SELECT id FROM apps WHERE user_id = ? AND app_name = ? AND window_title = ?
SelectAppId(tbl, key) == FirstIndex({i \in DOMAIN tbl : tbl[i] = key})

\* SELECT id, duration FROM activity_logs WHERE app_id = ? AND activity_date = ?
\* The result is the row as read: <<>> when there is none, else <<[id, duration]>>.
SelectLog(tbl, app, date) ==
    LET i == FirstIndex({j \in DOMAIN tbl : /\ tbl[j].app_id = app
                                             /\ tbl[j].activity_date = date})
    IN IF i = 0 THEN <<>> ELSE <<[id |-> i, duration |-> tbl[i].duration]>>

\* UNIQUE(app_id, activity_date) of activity_logs.
LogUniqueViolated(tbl, app, date) ==
    \E i \in DOMAIN tbl : tbl[i].app_id = app /\ tbl[i].activity_date = date

\* The UPDATE overwriting the total with the incoming value.
new_duration_overwrite(existing_row, duration) == duration

\* new_duration = existing["duration"] + int(activity.duration)
new_duration(existing_row, duration) == existing_row.duration + duration

\* An UPDATE that names the app instead of the row: every date of the app is
\* overwritten.
UpdateLog_ByApp(tbl, id, duration) ==
    [i \in DOMAIN tbl |-> IF tbl[i].app_id = tbl[id].app_id
                          THEN [tbl[i] EXCEPT !.duration = duration]
                          ELSE tbl[i]]

\* UPDATE activity_logs SET duration = ? WHERE id = ?
UpdateLog(tbl, id, duration) == [tbl EXCEPT ![id].duration = duration]

\* An INSERT that no uniqueness constraint stops.
InsertLog_NoUnique(tbl, app, date, duration) ==
    [ok |-> TRUE,
     rows |-> Append(tbl, [app_id |-> app, activity_date |-> date, duration |-> duration])]

\* INSERT INTO activity_logs: sqlite3.IntegrityError (ok = FALSE) when the
\* (app_id, activity_date) pair is already there.
InsertLog(tbl, app, date, duration) ==
    IF LogUniqueViolated(tbl, app, date)
    THEN [ok |-> FALSE, rows |-> tbl]
    ELSE [ok |-> TRUE,
          rows |-> Append(tbl, [app_id |-> app, activity_date |-> date,
                                duration |-> duration])]

\* Lines 157-165 on one connection: the upsert from the row read by SELECT.
UpsertLog(tbl, existing_row, app, date, duration) ==
    IF existing_row # <<>>
    THEN [ok |-> TRUE,
          rows |-> UpdateLog(tbl, existing_row[1].id,
                             new_duration(existing_row[1], duration))]
    ELSE InsertLog(tbl, app, date, duration)

\* Lines 144-145: the date the request is bucketed under.
ActivityDate(a, clock, zone) ==
    LET ts == IF Falsy(a.timestamp) THEN iso_now(clock) ELSE a.timestamp
    IN to_date_iso(ts, clock, zone)

(***************************************************************************)
(* add_activity run to its end on its own connection with no other         *)
(* connection writing in between: the store and the answer it leaves.      *)
(* status is "success", "500" (Failed to find/create app) or               *)
(* "IntegrityError" (the unhandled exception of the INSERT).               *)
(***************************************************************************)
add_activity(a, clock, zone, appsTbl, logsTbl) ==
    LET date == ActivityDate(a, clock, zone)
        apps1 == InsertOrIgnoreApp(appsTbl, NaturalKey(a))
        id == SelectAppId(apps1, NaturalKey(a))
        row == SelectLog(logsTbl, id, date)
        up == UpsertLog(logsTbl, row, id, date, a.duration)
    IN IF id = 0
       THEN [apps |-> apps1, activity_logs |-> logsTbl, status |-> "500",
             app_id |-> 0, activity_date |-> date]
       ELSE [apps |-> apps1, activity_logs |-> up.rows,
             status |-> IF up.ok THEN "success" ELSE "IntegrityError",
             app_id |-> id, activity_date |-> date]

(***************************************************************************)
(* Requests.  A worker thread runs add_activity on its own connection;     *)
(* its locals are kept per worker.                                         *)
(*   pc             idle, select_app, select_log, write_log, done          *)
(*   activity       the ActivityIn being served                            *)
(*   activity_date, app_id, existing   the locals of add_activity          *)
(*   status         the answer of a finished request                       *)
(* reported and history record what was asked of the server and what it    *)
(* answered; the code has no such state.                                   *)
(*   reported  (natural key, activity_date) -> sum of the durations sent   *)
(*   history   the finished requests of SeqSpec and TrackerSpec: what was  *)
(*             sent, when, and the answer                                  *)
(*   inserted  whether the INSERT OR IGNORE of the worker's request added  *)
(*             the apps row (cursor.rowcount = 1); the code does not read  *)
(*             it                                                          *)
(***************************************************************************)
VARIABLES pc, activity, activity_date, app_id, existing, status, served,
          reported, history, inserted

(***************************************************************************)
(* The tracked_identifiers table and the tracker process.                  *)
(*   tracked_identifiers  the identifier column, in rowid order            *)
(*   tracker_pc           start (before line 65) or loop                   *)
(*   TRACKED_IDENTIFIERS, last_app, last_title, start_time                 *)
(*                        the module globals of tracker.py; None is <<>>   *)
(*                        and a value x is <<x>>                           *)
(*   shown, sessions, posts   record the window last seen on screen, the   *)
(*                        number of completed tracked sessions and the     *)
(*                        POST attempts made; the code has no such state   *)
(***************************************************************************)
VARIABLES tracked_identifiers, tracker_pc, TRACKED_IDENTIFIERS, last_app,
          last_title, start_time, shown, sessions, posts

(***************************************************************************)
(* answer: the response to the last request made to the statistics, the    *)
(* chatbot or the identifier endpoints since the tables last changed.      *)
(***************************************************************************)
VARIABLE answer

(***************************************************************************)
(* The database file across restarts of the server.                        *)
(*   legacy  the rows of a flat-session table left in the file by an       *)
(*           older version, one row per session; no statement of the code  *)
(*           names such a table                                            *)
(*   starts  how many times startup() has run on the file                  *)
(***************************************************************************)
VARIABLES legacy, starts

clockVars == <<now, tz>>
startVars == <<legacy, starts>>
storeVars == <<apps, activity_logs>>
workerVars == <<pc, activity, activity_date, app_id, existing, status, served,
               inserted>>
trackerVars == <<tracked_identifiers, tracker_pc, TRACKED_IDENTIFIERS, last_app,
                 last_title, start_time, shown, sessions, posts>>
vars == <<now, tz, apps, activity_logs, pc, activity, activity_date, app_id,
          existing, status, served, reported, history, inserted, tracked_identifiers,
          tracker_pc, TRACKED_IDENTIFIERS, last_app, last_title, start_time,
          shown, sessions, posts, answer, legacy, starts>>

Users == {LocalUser, OtherUser}

\* The natural keys the clients of Spec and SeqSpec report.
ClientKeys ==
    {[user_id |-> LocalUser, app_name |-> chrome_exe, window_title |-> Title_Mail],
     [user_id |-> OtherUser, app_name |-> chrome_exe, window_title |-> Title_Mail]}

\* duration: int of ActivityIn; pydantic accepts any integer.
Durations == {-1, 1, 2}

\* Dates that client timestamps name.
ClientDates == {1, 2}

Offsets == {-1, 0, 1}

\* The timestamps sent to the concurrent server.
SpecTimestamps == {NoTimestamp, IsoTimestamp(2, 0, FALSE, 0)}

\* The timestamps sent to the sequential server: absent, empty, unparseable,
\* a date followed by text, a naive timestamp, and aware timestamps just after
\* midnight east of UTC and just before midnight west of it.
SeqTimestamps ==
    {NoTimestamp, EmptyTimestamp, GarbageTimestamp, PrefixTimestamp(1),
     IsoTimestamp(1, 1, FALSE, 0)}
    \cup {IsoTimestamp(d, 0, TRUE, 1) : d \in ClientDates}
    \cup {IsoTimestamp(1, DayLen - 1, TRUE, -1)}

\* The durations sent to the sequential server.
SeqDurations == {1, 2}

ActivityIn(key, duration, ts) ==
    [user_id |-> key.user_id, app_name |-> key.app_name,
     window_title |-> key.window_title, duration |-> duration, timestamp |-> ts]

\* No request has been answered.
NoAnswer == [kind |-> "none"]

NoActivity == ActivityIn([user_id |-> EmptyStr, app_name |-> EmptyStr,
                          window_title |-> EmptyStr], 0, NoTimestamp)

\* reported after one more request for (key, date).
Report(rep, key, date, duration) ==
    LET k == <<key, date>>
    IN IF k \in DOMAIN rep
       THEN [rep EXCEPT ![k] = @ + duration]
       ELSE rep @@ (k :> duration)

\* Lines 142-149: the request arrives, the date is computed, and
\* INSERT OR IGNORE INTO apps is committed.
Receive(w, a) ==
    /\ pc[w] \in {"idle", "done"}
    /\ served < MaxServed
    /\ served' = served + 1
    /\ activity' = [activity EXCEPT ![w] = a]
    /\ activity_date' = [activity_date EXCEPT ![w] = ActivityDate(a, now, tz)]
    /\ apps' = InsertOrIgnoreApp(apps, NaturalKey(a))
    /\ inserted' = [inserted EXCEPT ![w] = SelectAppId(apps, NaturalKey(a)) = 0]
    /\ app_id' = [app_id EXCEPT ![w] = 0]
    /\ existing' = [existing EXCEPT ![w] = <<>>]
    /\ status' = [status EXCEPT ![w] = "pending"]
    /\ reported' = Report(reported, NaturalKey(a), ActivityDate(a, now, tz), a.duration)
    /\ pc' = [pc EXCEPT ![w] = "select_app"]
    /\ UNCHANGED <<activity_logs, clockVars, history, trackerVars, answer, startVars>>

\* Lines 150-155: look the app row up; HTTP 500 when there is none.
SelectApp(w) ==
    /\ pc[w] = "select_app"
    /\ LET id == SelectAppId(apps, NaturalKey(activity[w]))
       IN /\ app_id' = [app_id EXCEPT ![w] = id]
          /\ IF id = 0
             THEN /\ status' = [status EXCEPT ![w] = "500"]
                  /\ pc' = [pc EXCEPT ![w] = "done"]
             ELSE /\ status' = status
                  /\ pc' = [pc EXCEPT ![w] = "select_log"]
    /\ UNCHANGED <<storeVars, activity, activity_date, existing, served, reported,
                   inserted, clockVars, history, trackerVars, answer,
                   startVars>>

\* Lines 157-158: read the day's row.
SelectExisting(w) ==
    /\ pc[w] = "select_log"
    /\ existing' = [existing EXCEPT ![w] = SelectLog(activity_logs, app_id[w],
                                                     activity_date[w])]
    /\ pc' = [pc EXCEPT ![w] = "write_log"]
    /\ UNCHANGED <<storeVars, activity, activity_date, app_id, status, served,
                   reported, inserted, clockVars, history, trackerVars, answer,
                   startVars>>

\* Lines 159-167: UPDATE with the total computed from the row read earlier, or
\* INSERT, and commit.  The IntegrityError of the INSERT is not caught: the
\* request ends with an error and its connection, never committed, rolls back.
WriteLog(w) ==
    /\ pc[w] = "write_log"
    /\ LET up == UpsertLog(activity_logs, existing[w], app_id[w], activity_date[w],
                           activity[w].duration)
       IN /\ activity_logs' = up.rows
          /\ status' = [status EXCEPT ![w] = IF up.ok THEN "success"
                                              ELSE "IntegrityError"]
    /\ existing' = [existing EXCEPT ![w] = <<>>]
    /\ pc' = [pc EXCEPT ![w] = "done"]
    /\ UNCHANGED <<apps, activity, activity_date, app_id, served, reported,
                   inserted, clockVars, history, trackerVars, answer,
                   startVars>>

\* The wall clock advances by a second.
Tick ==
    /\ now < StartTime + MaxTicks
    /\ now' = now + 1
    /\ UNCHANGED <<tz, storeVars, workerVars, reported, history, trackerVars, answer,
                   startVars>>

(***************************************************************************)
(* The state after startup(): empty tables (lines 51-81), idle workers,    *)
(* the tracker not yet started.  FreshFile is a file that startup() has    *)
(* created, with no table of an older version in it.                       *)
(***************************************************************************)
FreshFile == legacy = <<>> /\ starts = 1

InitCommon ==
    /\ now = StartTime
    /\ apps = <<>>
    /\ activity_logs = <<>>
    /\ pc = [w \in Workers |-> "idle"]
    /\ activity = [w \in Workers |-> NoActivity]
    /\ activity_date = [w \in Workers |-> 0]
    /\ app_id = [w \in Workers |-> 0]
    /\ existing = [w \in Workers |-> <<>>]
    /\ status = [w \in Workers |-> "pending"]
    /\ served = 0
    /\ inserted = [w \in Workers |-> FALSE]
    /\ reported = <<>>
    /\ history = {}
    /\ tracker_pc = "start"
    /\ TRACKED_IDENTIFIERS = <<>>
    /\ last_app = <<>>
    /\ last_title = <<>>
    /\ start_time = <<>>
    /\ shown = <<>>
    /\ sessions = 0
    /\ posts = <<>>
    /\ answer = NoAnswer

\* The requests of Spec carry no timestamp that reads the local zone, and the
\* run is followed within one second of the clock.
Init ==
    /\ InitCommon
    /\ FreshFile
    /\ tz = 0
    /\ tracked_identifiers = <<>>

Next ==
    \/ \E w \in Workers, k \in ClientKeys, d \in Durations, ts \in SpecTimestamps :
           Receive(w, ActivityIn(k, d, ts))
    \/ \E w \in Workers : SelectApp(w)
    \/ \E w \in Workers : SelectExisting(w)
    \/ \E w \in Workers : WriteLog(w)

Spec == Init /\ [][Next]_vars

(***************************************************************************)
(* SeqSpec: one request at a time.  Serve is add_activity from its first   *)
(* line to its return, no other request in between.                        *)
(***************************************************************************)
Finished(a, r, at) ==
    [user_id |-> a.user_id, app_name |-> a.app_name,
     window_title |-> a.window_title, timestamp |-> a.timestamp, at |-> at,
     status |-> r.status, app_id |-> r.app_id, activity_date |-> r.activity_date]

Serve(a) ==
    /\ served < MaxSeqCalls
    /\ served' = served + 1
    /\ LET r == add_activity(a, now, tz, apps, activity_logs)
       IN /\ apps' = r.apps
          /\ activity_logs' = r.activity_logs
          /\ reported' = Report(reported, NaturalKey(a), r.activity_date, a.duration)
          /\ history' = history \cup {Finished(a, r, now)}
    /\ UNCHANGED <<clockVars, pc, activity, activity_date, app_id, existing, status,
                   inserted, trackerVars, answer, startVars>>

SeqInit ==
    /\ InitCommon
    /\ FreshFile
    /\ tz \in Offsets
    /\ tracked_identifiers = <<>>

SeqNext ==
    \/ \E k \in ClientKeys, d \in SeqDurations, ts \in SeqTimestamps :
           Serve(ActivityIn(k, d, ts))
    \/ Tick

SeqSpec == SeqInit /\ [][SeqNext]_vars


(***************************************************************************)
(* The tracker (src/tracker/tracker.py).                                   *)
(***************************************************************************)
BROWSERS == {chrome_exe, msedge_exe}

\* The identifiers are looked for in the texts as they are, not lower-cased.
is_tracked_case_sensitive(app_name, window_title) ==
    IF TRACKED_IDENTIFIERS = <<>> THEN TRUE
    ELSE \E i \in DOMAIN TRACKED_IDENTIFIERS :
             \/ Contains(TRACKED_IDENTIFIERS[i], app_name)
             \/ Contains(TRACKED_IDENTIFIERS[i], window_title)

\* Lines 39-44, against the global TRACKED_IDENTIFIERS.
is_tracked(app_name, window_title) ==
    IF TRACKED_IDENTIFIERS = <<>> THEN TRUE
    ELSE \E i \in DOMAIN TRACKED_IDENTIFIERS :
             \/ Contains(TRACKED_IDENTIFIERS[i], lower(app_name))
             \/ Contains(TRACKED_IDENTIFIERS[i], lower(window_title))

\* Lines 53-63.
extract_clean_title(app_name, window_title) ==
    IF app_name = EmptyStr \/ window_title = EmptyStr THEN Unknown
    ELSE IF lower(app_name) \in BROWSERS
    THEN IF Contains(Dash, window_title) THEN split(window_title)[1]
         ELSE window_title
    ELSE IF Contains(Dash, window_title)
    THEN strip(split(window_title)[Len(split(window_title))])
    ELSE window_title

\* What get_active_window() returns: (app_name, window_title); (None, None),
\* which the loop only tests for truth, is the pair of empty strings.
NoWindow == <<EmptyStr, EmptyStr>>
Windows ==
    {<<chrome_exe, Title_Docs>>, <<chrome_exe, Title_Mail>>, <<Code_exe, Title_Main>>,
     NoWindow}

\* The contents of tracked_identifiers when the tracker starts.
RegistryContents == {<<>>, <<Id_Code>>}

\* requests.post: answered by the server, refused before the server saw it
\* (ConnectionError), or served with the reply lost on the way back.
PostOutcomes == {"answered", "refused", "reply_lost"}

\* time.sleep(2)
SleepSeconds == 2

\* A failed fetch gives a list that no window matches.
fetch_fails_closed(ok, registry) ==
    IF ok THEN [i \in DOMAIN registry |-> lower(registry[i])]
    ELSE <<lower(Unknown)>>

\* Lines 17-26: the identifiers of the registry, lower-cased, when the GET
\* is answered with 200 (ok); [] on an exception or any other status.
fetch_tracked_identifiers(ok, registry) ==
    IF ok THEN [i \in DOMAIN registry |-> lower(registry[i])]
    ELSE <<>>

\* Line 65: the allow-list is fetched once, before the loop.
StartTracker(ok) ==
    /\ tracker_pc = "start"
    /\ TRACKED_IDENTIFIERS' = fetch_tracked_identifiers(ok, tracked_identifiers)
    /\ tracker_pc' = "loop"
    /\ UNCHANGED <<clockVars, storeVars, workerVars, reported, history,
                   tracked_identifiers, last_app, last_title, start_time, shown,
                   sessions, posts, answer, startVars>>

\* The exception of requests.post goes uncaught and ends the process.
PostFailureRaises(outcome) == IF outcome = "refused" THEN "stopped" ELSE "loop"

\* Lines 103-107: the exception of requests.post is caught and printed, and the
\* loop goes on.
PostFailureHandled(outcome) == "loop"

\* The start of the session before is kept when one was open.
SessionStart_Kept(local_now, previous) ==
    IF previous # <<>> THEN previous ELSE <<local_now>>

\* Line 112: start_time = now, whatever start_time was.
SessionStart(local_now, previous) == <<local_now>>

\* Lines 96-101: the JSON body of the POST.  It has no "timestamp" key, so the
\* server's ActivityIn takes the default None.
Payload(app_name, window_title, duration) ==
    [user_id |-> LocalUser, app_name |-> app_name, window_title |-> window_title,
     duration |-> duration, timestamp |-> NoTimestamp]

\* Lines 80-118: one iteration of the loop.  window is what is on screen,
\* outcome what becomes of the POST if one is made, latency the time the
\* iteration takes beyond its sleep.
Loop(window, outcome, latency) ==
    /\ tracker_pc = "loop"
    /\ now < StartTime + MaxElapsed
    /\ now' = now + SleepSeconds + latency
    /\ LET app_name == window[1]
           window_title == window[2]
           local_now == now + tz
           enriched_title == extract_clean_title(app_name, window_title)
           skipped == app_name = EmptyStr \/ window_title = EmptyStr
           changed == ~skipped /\ <<<<app_name>>, <<enriched_title>>>> # <<last_app, last_title>>
           ended == /\ changed
                    /\ last_app # <<>>
                    /\ last_app[1] # EmptyStr
                    /\ start_time # <<>>
                    /\ is_tracked(last_app[1], last_title[1])
           duration == local_now - start_time[1]
           payload == Payload(last_app[1], last_title[1], duration)
           served_it == ended /\ outcome # "refused"
           r == add_activity(payload, now, tz, apps, activity_logs)
           over == /\ ~skipped
                   /\ shown # <<>>
                   /\ shown[1] # <<app_name, enriched_title>>
                   /\ is_tracked(shown[1][1], shown[1][2])
       IN /\ IF served_it
             THEN /\ apps' = r.apps
                  /\ activity_logs' = r.activity_logs
                  /\ reported' = Report(reported, NaturalKey(payload), r.activity_date,
                                        duration)
                  /\ history' = history \cup {Finished(payload, r, now)}
             ELSE UNCHANGED <<storeVars, reported, history>>
          /\ posts' = IF ended
                      THEN Append(posts, [app_name |-> last_app[1],
                                          window_title |-> last_title[1],
                                          duration |-> duration,
                                          started |-> start_time[1],
                                          sent |-> local_now,
                                          timestamp |-> payload.timestamp,
                                          outcome |-> outcome,
                                          activity_date |-> IF served_it
                                                            THEN r.activity_date
                                                            ELSE 0])
                      ELSE posts
          /\ tracker_pc' = IF ended THEN PostFailureHandled(outcome) ELSE "loop"
          /\ IF changed
             THEN IF is_tracked(app_name, enriched_title)
                  THEN /\ last_app' = <<app_name>>
                       /\ last_title' = <<enriched_title>>
                       /\ start_time' = SessionStart(local_now, start_time)
                  ELSE /\ last_app' = <<>>
                       /\ last_title' = <<>>
                       /\ start_time' = <<>>
             ELSE UNCHANGED <<last_app, last_title, start_time>>
          /\ shown' = IF skipped THEN shown ELSE <<<<app_name, enriched_title>>>>
          /\ sessions' = IF over THEN sessions + 1 ELSE sessions
    /\ UNCHANGED <<tz, workerVars, tracked_identifiers, TRACKED_IDENTIFIERS, answer,
                   startVars>>

TrackerInit ==
    /\ InitCommon
    /\ FreshFile
    /\ tz \in Offsets
    /\ tracked_identifiers \in RegistryContents

TrackerNext ==
    \/ \E ok \in BOOLEAN : StartTracker(ok)
    \/ \E window \in Windows, outcome \in PostOutcomes, latency \in 0..MaxLatency :
           Loop(window, outcome, latency)

TrackerSpec == TrackerInit /\ [][TrackerNext]_vars


(***************************************************************************)
(* What the store holds for a natural key and a date.                      *)
(***************************************************************************)
Rows(key, date) ==
    {i \in DOMAIN activity_logs :
         /\ activity_logs[i].activity_date = date
         /\ activity_logs[i].app_id \in DOMAIN apps
         /\ apps[activity_logs[i].app_id] = key}

RECURSIVE SumDurations(_)
SumDurations(rows) ==
    IF rows = {} THEN 0
    ELSE LET i == CHOOSE x \in rows : TRUE
         IN activity_logs[i].duration + SumDurations(rows \ {i})

StoredTotal(key, date) == SumDurations(Rows(key, date))

\* No request is being served.
Quiescent == \A w \in Workers : pc[w] \in {"idle", "done"}

(***************************************************************************)
(* C1.  Concurrent recordUsage calls on the same (user, app, window, date) *)
(* key never lose an increment: once all calls have ended, the stored     *)
(* total of every reported key equals the sum of the durations sent.       *)
(* The code reads the row and writes the total in separate statements, so  *)
(* this is violated under Spec.                                            *)
(***************************************************************************)
C1_NoLostIncrement ==
    Quiescent =>
        \A k \in DOMAIN reported : StoredTotal(k[1], k[2]) = reported[k]

(***************************************************************************)
(* C2.  Under any interleaving of concurrent recordUsage calls there is    *)
(* exactly one Application row for the natural key of every call that has  *)
(* passed its INSERT OR IGNORE, no key has two rows, and every call that   *)
(* has looked its app up holds the id of that one row.                     *)
(***************************************************************************)
C2_OneApplicationRow ==
    /\ \A i, j \in DOMAIN apps : apps[i] = apps[j] => i = j
    /\ \A w \in Workers :
           pc[w] # "idle" =>
               Cardinality({i \in DOMAIN apps : apps[i] = NaturalKey(activity[w])}) = 1
    /\ \A w \in Workers :
           pc[w] \in {"select_log", "write_log", "done"} =>
               /\ app_id[w] \in DOMAIN apps
               /\ apps[app_id[w]] = NaturalKey(activity[w])

\* Two requests with the same key, the first two the server ever got, are
\* both past the app lookup at once.
C2_Witness ==
    /\ served = 2
    /\ \A w \in Workers : pc[w] = "select_log"
    /\ \A v, w \in Workers : NaturalKey(activity[v]) = NaturalKey(activity[w])
    /\ \A v, w \in Workers : app_id[v] = app_id[w]

(***************************************************************************)
(* C3.  After any sequence of recordUsage calls run one after another,     *)
(* every reported (natural key, activity_date) has exactly one DailyUsage  *)
(* row and its duration is the sum of all durations reported for it.       *)
(***************************************************************************)
C3_SequentialSum ==
    \A k \in DOMAIN reported :
        /\ Cardinality(Rows(k[1], k[2])) = 1
        /\ StoredTotal(k[1], k[2]) = reported[k]

\* Two reports, of 1 and of 2 seconds, went to the same key and date.
C3_Witness ==
    /\ served = 2
    /\ \E k \in DOMAIN reported : reported[k] = 3 /\ StoredTotal(k[1], k[2]) = 3

(***************************************************************************)
(* C4.  In every reachable state, under any interleaving of recordUsage    *)
(* calls, there is at most one DailyUsage row per (app_id, activity_date). *)
(***************************************************************************)
C4_UniqueAppDate ==
    \A i, j \in DOMAIN activity_logs :
        (/\ activity_logs[i].app_id = activity_logs[j].app_id
         /\ activity_logs[i].activity_date = activity_logs[j].activity_date) => i = j

\* A second INSERT for the same app and date was attempted and stopped.
C4_Witness == \E w \in Workers : status[w] = "IntegrityError"

(***************************************************************************)
(* C5.  A recordUsage call with a negative duration is rejected and        *)
(* changes nothing: no step of such a request changes apps or              *)
(* activity_logs.  ActivityIn accepts any int, so this is violated.        *)
(***************************************************************************)
C5_NegativeRejected ==
    [][\A w \in Workers :
           (pc'[w] # pc[w] /\ activity'[w].duration < 0) =>
               (apps' = apps /\ activity_logs' = activity_logs)]_vars

(***************************************************************************)
(* C6.  Once a DailyUsage row exists, no step of the server removes it or  *)
(* lowers its duration.  Violated: a negative duration is added (C5), and  *)
(* a stale total is written back by a concurrent request (C1).             *)
(***************************************************************************)
C6_NeverDecreases ==
    [][\A i \in DOMAIN activity_logs :
           /\ i \in DOMAIN activity_logs'
           /\ activity_logs'[i].app_id = activity_logs[i].app_id
           /\ activity_logs'[i].activity_date = activity_logs[i].activity_date
           /\ activity_logs'[i].duration >= activity_logs[i].duration]_vars

(***************************************************************************)
(* C7.  Every sample the tracker posts is bucketed by the server under the *)
(* local calendar date on which its session started.  The payload carries  *)
(* no timestamp, so the server uses the UTC date of the POST: violated.    *)
(***************************************************************************)
C7_BucketedByStartDate ==
    \A i \in DOMAIN posts :
        posts[i].outcome # "refused" =>
            posts[i].activity_date = DateOf(posts[i].started)

(***************************************************************************)
(* C8.  The tracker makes exactly one POST attempt per completed tracked   *)
(* session: the attempts are as many as the completed sessions and no two  *)
(* are for the same session start.  Whatever became of an attempt, the     *)
(* tracker keeps running and its open session is the tracked window now on  *)
(* screen, so the next session is detected.                                *)
(***************************************************************************)
C8_OnePostPerSession ==
    /\ Len(posts) = sessions
    /\ \A i, j \in DOMAIN posts : posts[i].started = posts[j].started => i = j
    /\ tracker_pc \in {"start", "loop"}
    /\ shown # <<>> =>
           IF is_tracked(shown[1][1], shown[1][2])
           THEN /\ last_app = <<shown[1][1]>>
                /\ last_title = <<shown[1][2]>>
                /\ start_time # <<>>
           ELSE last_app = <<>> /\ last_title = <<>> /\ start_time = <<>>

\* A POST failed with a network error and a later session was still reported.
C8_Witness ==
    \E i, j \in DOMAIN posts :
        /\ i < j
        /\ posts[i].outcome = "refused"
        /\ posts[j].outcome = "answered"

(***************************************************************************)
(* C9.  Two recordUsage calls for the same natural key whose timestamps    *)
(* name the same calendar date, whatever their time of day or offset, go   *)
(* to the same single DailyUsage row; timestamps naming different dates go *)
(* to different rows.                                                      *)
(***************************************************************************)
Dated(ts) == ts.kind \in {"iso", "prefix"}

SameKey(g, h) ==
    /\ g.user_id = h.user_id
    /\ g.app_name = h.app_name
    /\ g.window_title = h.window_title

RowsOf(h) ==
    {i \in DOMAIN activity_logs :
         /\ activity_logs[i].app_id = h.app_id
         /\ activity_logs[i].activity_date = h.activity_date}

C9_SameDateSameRow ==
    \A g, h \in history :
        (SameKey(g, h) /\ Dated(g.timestamp) /\ Dated(h.timestamp)) =>
            /\ g.status = "success" /\ h.status = "success"
            /\ Cardinality(RowsOf(g)) = 1 /\ Cardinality(RowsOf(h)) = 1
            /\ (g.timestamp.date = h.timestamp.date) <=> (RowsOf(g) = RowsOf(h))

\* The same key was reported at two different times of the same date, one of
\* them an aware timestamp whose instant is on another date in UTC.
C9_Witness ==
    \E g, h \in history :
        /\ SameKey(g, h)
        /\ g.timestamp.kind = "iso" /\ h.timestamp.kind = "iso"
        /\ g.timestamp.date = h.timestamp.date
        /\ g.timestamp.tod # h.timestamp.tod
        /\ g.timestamp.aware /\ UtcDateOfTimestamp(g.timestamp) # g.timestamp.date
        /\ RowsOf(g) = RowsOf(h)

(***************************************************************************)
(* C10.  A recordUsage call whose timestamp is absent or unparseable       *)
(* succeeds and is recorded under the current local calendar date.         *)
(* Violated: an absent timestamp is replaced by the UTC time, and the UTC  *)
(* date is recorded.                                                       *)
(***************************************************************************)
C10_FallbackLocalDate ==
    \A h \in history :
        h.timestamp.kind \in {"none", "empty", "garbage"} =>
            /\ h.status = "success"
            /\ h.activity_date = LocalToday(h.at, tz)


\* The request of worker w has ended in an error response.
Failed(w) == pc[w] = "done" /\ status[w] \in {"500", "IntegrityError"}

(***************************************************************************)
(* C11.  A failed recordUsage call leaves the store unchanged: a request   *)
(* that ended in an error has added no row.  The INSERT OR IGNORE INTO     *)
(* apps is committed at line 149, before the statement that can fail, so   *)
(* a request whose INSERT INTO activity_logs raises IntegrityError has     *)
(* left its apps row behind: violated under Spec.                          *)
(***************************************************************************)
C11_FailedLeavesStore ==
    \A w \in Workers : Failed(w) => ~inserted[w]

(***************************************************************************)
(* GET /stats/most-used/ (main.py lines 235-279).                          *)
(***************************************************************************)
\* days: int = Query(7, ge=1, le=365)
DefaultDays == 7
MinDays == 1
MaxDays == 365

\* Line 240: from_date = today - timedelta(days=days-1).
from_date(today, days) == today - (days - 1)

\* FROM activity_logs l JOIN apps a ON l.app_id = a.id
\* WHERE l.activity_date >= ?
WindowRows(from) ==
    {i \in DOMAIN activity_logs :
         /\ activity_logs[i].app_id \in DOMAIN apps
         /\ activity_logs[i].activity_date >= from}

\* GROUP BY l.app_id: the groups, and SUM(l.duration) of one of them.
AppGroups(from) == {activity_logs[i].app_id : i \in WindowRows(from)}
AppTotal(from, id) ==
    SumDurations({i \in WindowRows(from) : activity_logs[i].app_id = id})

\* ORDER BY total_duration DESC LIMIT 1: the rows fetchone() may return.
\* The ORDER BY names no second key, so among groups of equal total the
\* engine is free to put any first; 0 stands for no row.
FirstRows(from) ==
    IF AppGroups(from) = {} THEN {0}
    ELSE {id \in AppGroups(from) :
              \A other \in AppGroups(from) : AppTotal(from, other) <= AppTotal(from, id)}

\* Lines 251-253: the response when the query returns no row.
NoRowResponse ==
    [app_id |-> <<>>, app_name |-> <<>>, window_title |-> <<>>,
     total_duration |-> 0, top_users |-> <<>>]

\* q2 without its l.app_id = ? condition: the rows of every app of the window.
TopUsersRows_AllApps(from, id) == WindowRows(from)

\* Lines 261-264: FROM activity_logs l JOIN apps a ON l.app_id = a.id
\* WHERE l.app_id = ? AND l.activity_date >= ?
TopUsersRows(from, id) == {i \in WindowRows(from) : activity_logs[i].app_id = id}

\* Line 268: LIMIT 10
TopUsersLimit == 10

\* Lines 260-268: GROUP BY a.user_id ORDER BY user_duration DESC over rows,
\* as the list of line 271.  Among users of equal sums the query fixes no
\* order; the rows of one app_id have one user, so there is nothing to order.
RECURSIVE OrderedUsers(_, _)
OrderedUsers(rows, users) ==
    IF users = {} THEN <<>>
    ELSE LET total(u) ==
                 SumDurations({i \in rows : apps[activity_logs[i].app_id].user_id = u})
             top == CHOOSE u \in users : \A v \in users : total(v) <= total(u)
         IN <<[user_id |-> top, duration |-> total(top)]>>
                \o OrderedUsers(rows, users \ {top})

\* Lines 260-271: q2 and top_users.
top_users(from, id) ==
    LET rows == TopUsersRows(from, id)
        ordered == OrderedUsers(rows, {apps[activity_logs[i].app_id].user_id : i \in rows})
    IN IF Len(ordered) <= TopUsersLimit THEN ordered
       ELSE SubSeq(ordered, 1, TopUsersLimit)

\* Lines 255-279: the response built from the row of app id.
RowResponse(from, id) ==
    [app_id |-> <<id>>, app_name |-> <<apps[id].app_name>>,
     window_title |-> <<apps[id].window_title>>,
     total_duration |-> AppTotal(from, id),
     top_users |-> top_users(from, id)]

\* The response of stats_most_used when fetchone() returns the row of id.
stats_most_used(days, today, id) ==
    IF id = 0 THEN NoRowResponse ELSE RowResponse(from_date(today, days), id)

(***************************************************************************)
(* QuerySpec and ChatSpec: the tables are filled by POST /activity/        *)
(* requests served one at a time, and the statistics endpoint (QuerySpec)  *)
(* or the chatbot endpoint (ChatSpec) is asked about them.                 *)
(***************************************************************************)
MaxQueryCalls == 3

\* Two rows of one app_name (two users) and a row of another.
QueryKeys ==
    {[user_id |-> LocalUser, app_name |-> chrome_exe, window_title |-> Title_Mail],
     [user_id |-> OtherUser, app_name |-> chrome_exe, window_title |-> Title_Mail],
     [user_id |-> LocalUser, app_name |-> Code_exe,
      window_title |-> extract_clean_title(Code_exe, Title_Main)]}
QueryDurations == {2}

\* The dates of the client timestamps: the day before the server's today,
\* today, and the day after.
QueryDates == {DateOf(StartTime) - 1, DateOf(StartTime), DateOf(StartTime) + 1}

\* The days parameter of GET /stats/most-used/?days=
RequestedDays == {0, 1, 2, 366}

\* Line 239: today = datetime.now().date(), the server's local date.
Today == LocalToday(now, tz)

\* add_activity, from its first line to its return.
Record(a) ==
    /\ served < MaxQueryCalls
    /\ served' = served + 1
    /\ LET r == add_activity(a, now, tz, apps, activity_logs)
       IN /\ apps' = r.apps
          /\ activity_logs' = r.activity_logs
    /\ answer' = NoAnswer
    /\ UNCHANGED <<clockVars, pc, activity, activity_date, app_id, existing, status,
                   inserted, reported, history, trackerVars, startVars>>

\* Lines 235-279.  A days value outside [1, 365] is refused by the Query
\* validation with 422 before the function body runs; id is the row that
\* fetchone() returns.
MostUsed(days, id) ==
    /\ IF days < MinDays \/ days > MaxDays
       THEN /\ id = 0
            /\ answer' = [kind |-> "most_used", status |-> 422, days |-> days,
                          today |-> Today, body |-> <<>>]
       ELSE /\ id \in FirstRows(from_date(Today, days))
            /\ answer' = [kind |-> "most_used", status |-> 200, days |-> days,
                          today |-> Today, body |-> stats_most_used(days, Today, id)]
    /\ UNCHANGED <<clockVars, storeVars, workerVars, reported, history, trackerVars,
                   startVars>>

(***************************************************************************)
(* POST /api/chatbot/query (main.py lines 304-412): the regular            *)
(* expressions, computed on the characters of the query.                   *)
(***************************************************************************)
Digits == <<"0", "1", "2", "3", "4", "5", "6", "7", "8", "9">>
Letters ==
    {"a", "b", "c", "d", "e", "f", "g", "h", "i", "j", "k", "l", "m", "n", "o",
     "p", "q", "r", "s", "t", "u", "v", "w", "x", "y", "z", "C", "D", "M", "U"}

\* \d, \s, \w and the classes [a-zA-Z0-9\.\-\_] and [a-zA-Z0-9\.\-\_\s]
IsDigit(c) == \E n \in DOMAIN Digits : Digits[n] = c
IsSpace(c) == c = " "
IsWord(c) == c \in Letters \/ IsDigit(c) \/ c = "_"
IsTermChar(c) == c \in Letters \/ IsDigit(c) \/ c \in {".", "-", "_"}
IsFragChar(c) == IsTermChar(c) \/ IsSpace(c)

\* The literal w stands in s at position i.
At(w, s, i) == i >= 1 /\ i + Len(w) - 1 <= Len(s) /\ SubSeq(s, i, i + Len(w) - 1) = w

\* \s+, \d+ and the two classes with +, matched greedily from position i:
\* the position after the longest run.
RECURSIVE SkipSpaces(_, _)
SkipSpaces(s, i) == IF i <= Len(s) /\ IsSpace(s[i]) THEN SkipSpaces(s, i + 1) ELSE i
RECURSIVE SkipDigits(_, _)
SkipDigits(s, i) == IF i <= Len(s) /\ IsDigit(s[i]) THEN SkipDigits(s, i + 1) ELSE i
RECURSIVE SkipTerm(_, _)
SkipTerm(s, i) == IF i <= Len(s) /\ IsTermChar(s[i]) THEN SkipTerm(s, i + 1) ELSE i
RECURSIVE SkipFrag(_, _)
SkipFrag(s, i) == IF i <= Len(s) /\ IsFragChar(s[i]) THEN SkipFrag(s, i + 1) ELSE i

\* int() of a text of decimal digits.
RECURSIVE int(_)
int(ds) ==
    IF ds = <<>> THEN 0
    ELSE 10 * int(SubSeq(ds, 1, Len(ds) - 1))
         + ((CHOOSE n \in DOMAIN Digits : Digits[n] = ds[Len(ds)]) - 1)

\* The least element of a non-empty set of positions: re.search reports the
\* leftmost match.
Leftmost(places) == CHOOSE i \in places : \A j \in places : i <= j

Kw_last == <<"l", "a", "s", "t">>
Kw_days == <<"d", "a", "y", "s">>
Kw_today == <<"t", "o", "d", "a", "y">>
Kw_yesterday == <<"y", "e", "s", "t", "e", "r", "d", "a", "y">>

\* Line 125: where last\s+(\d+)\s+days matches at position i, the position
\* pair <<start, end + 1>> of group 1; <<>> where it does not match.  \d+ and
\* \s+ share no character, so the greedy run is the only candidate.
LastDaysGroup(text, i) ==
    LET j == SkipSpaces(text, i + Len(Kw_last))
        k == SkipDigits(text, j)
        l == SkipSpaces(text, k)
    IN IF /\ At(Kw_last, text, i)
          /\ j > i + Len(Kw_last)
          /\ k > j
          /\ l > k
          /\ At(Kw_days, text, l)
       THEN <<j, k>> ELSE <<>>

\* Lines 124-135.  int() of a run of digits never raises, so the except
\* branch is not taken.
parse_days_from_text(text, default) ==
    LET places == {i \in DOMAIN text : LastDaysGroup(text, i) # <<>>}
    IN IF places # {}
       THEN LET g == LastDaysGroup(text, Leftmost(places))
                n == int(SubSeq(text, g[1], g[2] - 1))
            IN IF n < 1 THEN 1 ELSE n
       ELSE IF Contains(Kw_today, text) THEN 1
       ELSE IF Contains(Kw_yesterday, text) THEN 1
       ELSE default

\* Line 313: top_keywords.
top_keywords ==
    {<<"t", "o", "p", " ", "a", "p", "p", "s">>,
     <<"m", "o", "s", "t", " ", "u", "s", "e", "d">>,
     <<"m", "o", "s", "t", " ", "u", "s", "e", "d", " ", "a", "p", "p", "s">>,
     <<"m", "o", "s", "t", " ", "p", "o", "p", "u", "l", "a", "r">>,
     <<"t", "o", "p", " ", "a", "p", "p">>}

Kw_top == <<"t", "o", "p">>
Kw_how == <<"h", "o", "w", " ">>
Kw_many == <<"m", "a", "n", "y">>
Kw_much == <<"m", "u", "c", "h">>
Kw_minutes == <<"m", "i", "n", "u", "t", "e", "s">>
Kw_hours == <<"h", "o", "u", "r", "s">>
Kw_seconds == <<"s", "e", "c", "o", "n", "d", "s">>
Kw_did == <<"d", "i", "d">>
Kw_have == <<"h", "a", "v", "e">>
Kw_was == <<"w", "a", "s">>
Kw_top_users_for ==
    <<"t", "o", "p", " ", "u", "s", "e", "r", "s", " ", "f", "o", "r">>

\* Line 314: \btop\s+\d+\b matches at position i.  \b holds before "top" when
\* no word character precedes it, and after the greedy run of digits when no
\* word character follows; a shorter run of digits ends between two digits,
\* where \b does not hold.
TopNumberAt(s, i) ==
    LET j == SkipSpaces(s, i + Len(Kw_top))
        k == SkipDigits(s, j)
    IN /\ At(Kw_top, s, i)
       /\ i = 1 \/ ~IsWord(s[i - 1])
       /\ j > i + Len(Kw_top)
       /\ k > j
       /\ k > Len(s) \/ ~IsWord(s[k])

\* Line 314: the condition of the top-apps intent.
MatchesTopApps(qlow) ==
    \/ \E kw \in top_keywords : Contains(kw, qlow)
    \/ \E i \in DOMAIN qlow : TopNumberAt(qlow, i)

\* Line 334: the pattern matches at position i.  After "how many|much", the
\* unit and (?:did|have|have i|have we|was), every later part of the pattern
\* up to $ consumes only characters of [a-zA-Z0-9\.\-\_\s] (the optional
\* words, the lazy group 3, and the date with its digits and hyphens), and
\* group 3 needs one character; so the pattern matches exactly when the rest
\* of the text is non-empty and made of such characters.  The alternatives
\* "have i" and "have we" match nothing that "have" does not.
DurationAt(s, i) ==
    LET j == SkipSpaces(s, i + Len(Kw_how) + Len(Kw_many))
    IN /\ At(Kw_how, s, i)
       /\ At(Kw_many, s, i + Len(Kw_how)) \/ At(Kw_much, s, i + Len(Kw_how))
       /\ j > i + Len(Kw_how) + Len(Kw_many)
       /\ \E unit \in {Kw_minutes, Kw_hours, Kw_seconds} :
              LET k == SkipSpaces(s, j + Len(unit))
              IN /\ At(unit, s, j)
                 /\ k > j + Len(unit)
                 /\ \E aux \in {Kw_did, Kw_have, Kw_was} :
                        /\ At(aux, s, k)
                        /\ k + Len(aux) <= Len(s)
                        /\ SkipFrag(s, k + Len(aux)) > Len(s)

MatchesDuration(qlow) == \E i \in DOMAIN qlow : DurationAt(qlow, i)

\* Line 362: the pattern matches at position i: "top users for", one blank
\* for \s+ and one character for group 1.
TopUsersAt(s, i) ==
    LET p == i + Len(Kw_top_users_for)
    IN /\ At(Kw_top_users_for, s, i)
       /\ p + 1 <= Len(s)
       /\ IsSpace(s[p])
       /\ IsFragChar(s[p + 1])

MatchesTopUsers(qlow) == \E i \in DOMAIN qlow : TopUsersAt(qlow, i)

\* Line 364: m.group(1).strip().  Group 1 is greedy and blanks belong to its
\* class: with the blanks of \s+ it covers the longest run after the keyword.
TopUsersFrag(qlow) ==
    LET i == Leftmost({x \in DOMAIN qlow : TopUsersAt(qlow, x)})
        p == i + Len(Kw_top_users_for)
    IN strip(SubSeq(qlow, p, SkipFrag(qlow, p) - 1))

\* Line 365: days = int(m.group(2)) if m.group(2) else 7.  Group 1 has
\* already taken every character of its class, the blank that group 2 must
\* begin with included, and the optional group 2 then matches empty: the
\* first successful match, which re.search returns, has m.group(2) None.
TopUsersDays(qlow) == DefaultDays

\* Line 387: re.findall(r"[a-zA-Z0-9\.\-\_]{2,}", qlow), the places where a
\* term starts: a run of two or more characters of the class.
TermStarts(qlow) == {i \in DOMAIN qlow : SkipTerm(qlow, i) >= i + 2}

\* Line 389: terms[0].
FirstTerm(qlow) ==
    LET i == Leftmost(TermStarts(qlow))
    IN SubSeq(qlow, i, SkipTerm(qlow, i) - 1)

\* Search is tried before every other rule.
ChatIntent_SearchFirst(qlow) ==
    IF TermStarts(qlow) # {} THEN "search"
    ELSE IF MatchesTopApps(qlow) THEN "top_apps"
    ELSE IF MatchesDuration(qlow) THEN "duration"
    ELSE IF MatchesTopUsers(qlow) THEN "top_users"
    ELSE "help"

\* Lines 312-412: the rule that answers, in the order of the if statements.
ChatIntent(qlow) ==
    IF MatchesTopApps(qlow) THEN "top_apps"
    ELSE IF MatchesDuration(qlow) THEN "duration"
    ELSE IF MatchesTopUsers(qlow) THEN "top_users"
    ELSE IF TermStarts(qlow) # {} THEN "search"
    ELSE "help"


\* The texts sent to the chatbot.
Q_TopAppsLast14 ==
    <<"t", "o", "p", " ", "a", "p", "p", "s", " ", "l", "a", "s", "t", " ",
      "1", "4", " ", "d", "a", "y", "s">>
QueryTexts ==
    {Q_TopAppsLast14,
     <<"M", "o", "s", "t", " ", "u", "s", "e", "d">>,
     <<"t", "o", "p", " ", "a", "p", "p", "s", " ", "l", "a", "s", "t", " ",
       "4", "0", "0", " ", "d", "a", "y", "s">>,
     <<"t", "o", "p", " ", "a", "p", "p", "s", " ", "l", "a", "s", "t", " ",
       "0", " ", "d", "a", "y", "s">>,
     <<"t", "o", "p", " ", "a", "p", "p", "s", " ", "t", "o", "d", "a", "y">>,
     <<"t", "o", "p", " ", "5", " ", "t", "o", "p", " ", "u", "s", "e", "r",
       "s", " ", "f", "o", "r", " ", "c", "o", "d", "e">>,
     <<"h", "o", "w", " ", "m", "u", "c", "h", " ", "h", "o", "u", "r", "s",
       " ", "w", "a", "s", " ", "t", "o", "p", " ", "a", "p", "p", "s">>,
     <<"h", "o", "w", " ", "m", "a", "n", "y", " ", "m", "i", "n", "u", "t",
       "e", "s", " ", "d", "i", "d", " ", "i", " ", "u", "s", "e", " ", "c",
       "h", "r", "o", "m", "e">>,
     <<"h", "o", "w", " ", "m", "a", "n", "y", " ", "m", "i", "n", "u", "t",
       "e", "s", " ", "o", "n", " ", "c", "h", "r", "o", "m", "e">>,
     <<"t", "o", "p", " ", "u", "s", "e", "r", "s", " ", "f", "o", "r", " ",
       "c", "o", "d", "e">>,
     <<"t", "o", "p", " ", "u", "s", "e", "r", "s", " ", "f", "o", "r", " ",
       "c", "o", "d", "e", " ", "l", "a", "s", "t", " ", "0", " ", "d", "a",
       "y", "s">>,
     <<"s", "e", "a", "r", "c", "h", " ", "c", "h", "r", "o", "m", "e">>,
     <<"?">>,
     <<" ", " ">>}

\* Lines 319-325: GROUP BY a.app_name over the rows of the window, and the
\* SUM(l.duration) of one name.
NameGroups(from) == {apps[activity_logs[i].app_id].app_name : i \in WindowRows(from)}
NameTotal(from, name) ==
    SumDurations({i \in WindowRows(from) :
                      apps[activity_logs[i].app_id].app_name = name})

\* ORDER BY total_duration DESC LIMIT 10: the names that may stand in the
\* first line of the answer, each as <<name>>; <<>> when there is no row.
FirstNames(from) ==
    IF NameGroups(from) = {} THEN {<<>>}
    ELSE {<<name>> : name \in
              {n \in NameGroups(from) :
                   \A other \in NameGroups(from) :
                       NameTotal(from, other) <= NameTotal(from, n)}}

\* Lines 306-311 and the conditions of lines 314, 335, 363 and 388: what the
\* handler derives from the text alone.
ParseQuery(query) ==
    LET qtext == strip(query)
        qlow == lower(qtext)
        intent == IF qtext = EmptyStr THEN "none" ELSE ChatIntent(qlow)
    IN [qlow |-> qlow,
        intent |-> intent,
        days |-> IF intent = "top_apps" THEN parse_days_from_text(qlow, DefaultDays)
                 ELSE IF intent = "top_users" THEN TopUsersDays(qlow)
                 ELSE 0,
        detail |-> IF intent = "top_users" THEN TopUsersFrag(qlow)
                   ELSE IF intent = "search" THEN FirstTerm(qlow)
                   ELSE EmptyStr]

\* ParseQuery of every text of QueryTexts.
Parsed == [query \in QueryTexts |-> ParseQuery(query)]

\* Lines 304-412, for a request that carries a valid API key.  Of the answer
\* text the model keeps the rule that answered, the day count of the query,
\* the app fragment or search term (detail) and, for the top-apps rule, the
\* first line (first, the name ranked first, and its total).
ChatbotQuery(query, first) ==
    /\ LET p == Parsed[query]
           from == from_date(Today, p.days)
       IN /\ IF p.intent = "top_apps" THEN first \in FirstNames(from)
             ELSE first = <<>>
          /\ answer' = [kind |-> "chat",
                        status |-> IF p.intent = "none" THEN 400 ELSE 200,
                        query |-> p.qlow, intent |-> p.intent, days |-> p.days,
                        today |-> Today, detail |-> p.detail,
                        body |-> [first |-> first,
                                  total_duration |->
                                      IF first = <<>> THEN 0
                                      ELSE NameTotal(from, first[1])]]
    /\ UNCHANGED <<clockVars, storeVars, workerVars, reported, history, trackerVars,
                   startVars>>

QueryInit ==
    /\ InitCommon
    /\ FreshFile
    /\ tz = 0
    /\ tracked_identifiers = <<>>

QueryNext ==
    \/ \E k \in QueryKeys, d \in QueryDurations, date \in QueryDates :
           Record(ActivityIn(k, d, IsoTimestamp(date, 0, FALSE, 0)))
    \/ \E days \in RequestedDays, id \in 0..MaxQueryCalls : MostUsed(days, id)

QuerySpec == QueryInit /\ [][QueryNext]_vars

\* The requests that fill the tables of ChatSpec are dated today and differ
\* in their durations.
ChatDurations == {2, 3}

ChatNext ==
    \/ \E k \in QueryKeys, d \in ChatDurations :
           Record(ActivityIn(k, d, IsoTimestamp(DateOf(StartTime), 0, FALSE, 0)))
    \/ \E query \in QueryTexts, first \in {<<>>} \cup {<<k.app_name>> : k \in QueryKeys} :
           ChatbotQuery(query, first)

ChatSpec == QueryInit /\ [][ChatNext]_vars

\* The rows of the closed interval [from, today], and the total of one app
\* over them.
ClosedRows(from, today) ==
    {i \in DOMAIN activity_logs :
         /\ from <= activity_logs[i].activity_date
         /\ activity_logs[i].activity_date <= today}
ClosedTotal(from, today, id) ==
    SumDurations({i \in ClosedRows(from, today) : activity_logs[i].app_id = id})

\* answer is a response of GET /stats/most-used/ computed by the query.
MostUsedAnswered == answer.kind = "most_used" /\ answer.status = 200

(***************************************************************************)
(* C12.  mostUsed(windowDays) sums only the rows dated in the closed       *)
(* interval [today - (windowDays - 1), today]: the total_duration it       *)
(* returns is the selected app's total over that interval, and no app has  *)
(* a larger total over it.  The WHERE clause of line 245 is                *)
(* l.activity_date >= ? alone, so a row dated after today is counted:      *)
(* violated under QuerySpec.                                               *)
(***************************************************************************)
C12_ClosedInterval ==
    (MostUsedAnswered /\ answer.body.app_id # <<>>) =>
        LET from == from_date(answer.today, answer.days)
            id == answer.body.app_id[1]
        IN /\ answer.body.total_duration = ClosedTotal(from, answer.today, id)
           /\ \A other \in DOMAIN apps :
                  ClosedTotal(from, answer.today, other)
                      <= ClosedTotal(from, answer.today, id)

C14_EmptyWindow ==
    MostUsedAnswered =>
        IF ClosedRows(from_date(answer.today, answer.days), answer.today) = {}
        THEN answer.body = NoRowResponse
        ELSE answer.body.app_id # <<>>

\* answer is a response of the chatbot to a non-empty query.
ChatAnswered == answer.kind = "chat" /\ answer.status = 200

(***************************************************************************)
(* C15.  Every date-window query (GET /stats/most-used/, the chatbot's     *)
(* top-apps rule, the chatbot's top-users rule) runs with a day count in   *)
(* [1, 365].  parse_days_from_text raises a count below 1 to 1 but has no  *)
(* upper limit, so "top apps last 400 days" runs its query with 400:       *)
(* violated under ChatSpec.                                                *)
(***************************************************************************)
C15_DaysInRange ==
    /\ MostUsedAnswered => answer.days \in MinDays..MaxDays
    /\ (ChatAnswered /\ answer.intent \in {"top_apps", "top_users"})
           => answer.days \in MinDays..MaxDays

(***************************************************************************)
(* C16.  The rules are tried in the order (a) top-apps, (b) duration,      *)
(* (c) top-users, (d) search, (e) help, and the first whose pattern        *)
(* matches answers: a text that matches (a) is answered by (a) with the    *)
(* day count of its "last N days", whatever later rule it also matches; a  *)
(* later rule answers only when no earlier one matches.                    *)
(***************************************************************************)
C16_FirstMatchWins ==
    ChatAnswered =>
        LET q == answer.query
            a == MatchesTopApps(q)
            b == MatchesDuration(q)
            c == MatchesTopUsers(q)
            d == TermStarts(q) # {}
        IN /\ a => /\ answer.intent = "top_apps"
                   /\ answer.days = parse_days_from_text(q, DefaultDays)
           /\ (~a /\ b) => answer.intent = "duration"
           /\ (~a /\ ~b /\ c) => answer.intent = "top_users"
           /\ (~a /\ ~b /\ ~c /\ d) => answer.intent = "search"
           /\ (~a /\ ~b /\ ~c /\ ~d) => answer.intent = "help"

\* "top apps last 14 days", which the search rule matches too, is answered
\* by the top-apps rule with 14 days.
C16_Witness ==
    /\ ChatAnswered
    /\ answer.query = Q_TopAppsLast14
    /\ TermStarts(answer.query) # {}
    /\ answer.intent = "top_apps"
    /\ answer.days = 14

(***************************************************************************)
(* C17.  The top-apps rule of the chatbot answers with the result of       *)
(* mostUsed for its day count: the name it ranks first is the name of an   *)
(* app that mostUsed(days) can select on the same tables, and it reports   *)
(* no activity exactly when mostUsed selects none.  The chatbot runs its   *)
(* own query, grouped by a.app_name, so the rows of one program under two  *)
(* users or window titles are summed together: violated under ChatSpec.    *)
(***************************************************************************)
C17_TopAppsIsMostUsed ==
    (ChatAnswered /\ answer.intent = "top_apps") =>
        LET from == from_date(answer.today, answer.days)
        IN IF answer.body.first = <<>> THEN FirstRows(from) = {0}
           ELSE \E id \in FirstRows(from) :
                    /\ id # 0
                    /\ apps[id].app_name = answer.body.first[1]

(***************************************************************************)
(* The identifier endpoints (main.py lines 212-232) and RegistrySpec.      *)
(* Each handler is one SQL statement and its commit.                       *)
(***************************************************************************)
\* The identifiers that clients add and remove.  identifier TEXT UNIQUE
\* compares texts exactly, so "Code" and "code" are two identifiers.
Identifiers == {Id_Code, lower(Id_Code), Title_Mail, chrome_exe}

\* INSERT INTO tracked_identifiers without the UNIQUE constraint.
InsertIdentifier_NoUnique(tbl, identifier) ==
    [ok |-> TRUE, rows |-> Append(tbl, identifier)]

\* Line 216: INSERT INTO tracked_identifiers (identifier) VALUES (?), under
\* identifier TEXT UNIQUE (line 77); not ok is sqlite3.IntegrityError.
InsertIdentifier(tbl, identifier) ==
    IF \E i \in DOMAIN tbl : tbl[i] = identifier
    THEN [ok |-> FALSE, rows |-> tbl]
    ELSE [ok |-> TRUE, rows |-> Append(tbl, identifier)]

\* Line 227: DELETE FROM tracked_identifiers WHERE identifier = ?, with
\* cursor.rowcount.
DeleteIdentifier(tbl, identifier) ==
    LET kept == SelectSeq(tbl, LAMBDA x : x # identifier)
    IN [rowcount |-> Len(tbl) - Len(kept), rows |-> kept]

\* Lines 212-222.
AddIdentifier(identifier) ==
    /\ LET r == InsertIdentifier(tracked_identifiers, identifier)
       IN /\ tracked_identifiers' = r.rows
          /\ answer' = [kind |-> "add_identifier",
                        status |-> IF r.ok THEN 200 ELSE 400,
                        identifier |-> identifier]
    /\ UNCHANGED <<clockVars, storeVars, workerVars, reported, history, tracker_pc,
                   TRACKED_IDENTIFIERS, last_app, last_title, start_time, shown,
                   sessions, posts, startVars>>

\* Lines 224-232.
RemoveIdentifier(identifier) ==
    /\ LET r == DeleteIdentifier(tracked_identifiers, identifier)
       IN /\ tracked_identifiers' = r.rows
          /\ answer' = [kind |-> "remove_identifier",
                        status |-> IF r.rowcount = 0 THEN 404 ELSE 200,
                        identifier |-> identifier]
    /\ UNCHANGED <<clockVars, storeVars, workerVars, reported, history, tracker_pc,
                   TRACKED_IDENTIFIERS, last_app, last_title, start_time, shown,
                   sessions, posts, startVars>>

RegistryNext ==
    \/ \E identifier \in Identifiers : AddIdentifier(identifier)
    \/ \E identifier \in Identifiers : RemoveIdentifier(identifier)

RegistrySpec == QueryInit /\ [][RegistryNext]_vars

\* identifier is listed in the registry.
Listed(identifier) ==
    \E i \in DOMAIN tracked_identifiers : tracked_identifiers[i] = identifier

(***************************************************************************)
(* C18.  Adding an identifier that is already listed is answered 400 and   *)
(* removing one that is not listed is answered 404; in both cases the      *)
(* registry is left as it was; and after every call no identifier is       *)
(* listed twice.                                                           *)
(***************************************************************************)
C18_RegistryFailures ==
    [][/\ (answer'.kind = "add_identifier" /\ Listed(answer'.identifier))
              => /\ answer'.status = 400
                 /\ tracked_identifiers' = tracked_identifiers
       /\ (answer'.kind = "remove_identifier" /\ ~Listed(answer'.identifier))
              => /\ answer'.status = 404
                 /\ tracked_identifiers' = tracked_identifiers
       /\ \A i, j \in DOMAIN tracked_identifiers' :
              tracked_identifiers'[i] = tracked_identifiers'[j] => i = j]_vars

\* An add of a listed identifier has been refused with 400, the registry
\* holding it and another identifier.
C18_Witness ==
    /\ answer.kind = "add_identifier"
    /\ answer.status = 400
    /\ Listed(answer.identifier)
    /\ Len(tracked_identifiers) >= 2

\* Some identifier of the list ids, lower-cased, is a substring of the
\* lower-cased app name or window title.
MatchesSome(ids, app_name, window_title) ==
    \E i \in DOMAIN ids :
        \/ Contains(lower(ids[i]), lower(app_name))
        \/ Contains(lower(ids[i]), lower(window_title))

MaxStarts == 2
MaxLegacyRows == 2

\* Rows of the flat-session table: one per session, with its timestamp.
\* Two sessions of one day differ in the time of day.
LegacyRows ==
    {[user_id |-> k.user_id, app_name |-> k.app_name,
      window_title |-> k.window_title, duration |-> d,
      timestamp |-> IsoTimestamp(DateOf(StartTime), tod, FALSE, 0)] :
         k \in ClientKeys, d \in {50, 100}, tod \in {1, DayLen - 1}}

LegacyTables ==
    UNION {[1..n -> LegacyRows] : n \in 0..MaxLegacyRows}

\* Lines 51-81: three CREATE TABLE IF NOT EXISTS statements and a commit.
\* A table that exists is left as it is; a table created is empty; no other
\* table of the file is read or written.
Startup ==
    /\ starts < MaxStarts
    /\ starts' = starts + 1
    /\ UNCHANGED <<legacy, clockVars, storeVars, workerVars, reported, history,
                   trackerVars, answer>>

StartupInit ==
    /\ InitCommon
    /\ tz = 0
    /\ tracked_identifiers = <<>>
    /\ legacy \in LegacyTables
    /\ starts = 0

StartupNext == Startup

StartupSpec == StartupInit /\ [][StartupNext]_vars

\* The date a legacy row is counted under, and the sum of the durations of
\* the legacy rows of a key and date.
LegacyDate(row) == to_date_iso(row.timestamp, now, tz)
RECURSIVE SumLegacy(_)
SumLegacy(rows) ==
    IF rows = {} THEN 0
    ELSE LET n == CHOOSE x \in rows : TRUE
         IN legacy[n].duration + SumLegacy(rows \ {n})
LegacyTotal(key, date) ==
    SumLegacy({n \in DOMAIN legacy :
                   NaturalKey(legacy[n]) = key /\ LegacyDate(legacy[n]) = date})

(***************************************************************************)
(* C20.  Once the process has started, the legacy flat-session rows are    *)
(* migrated: for every (user, app, window, date) of a legacy row the       *)
(* stored total is the sum of the durations of the legacy rows of that     *)
(* group, after the first start and after every later one.  startup()      *)
(* creates the three tables and does nothing else, so the totals stay      *)
(* empty: violated under StartupSpec.                                      *)
(***************************************************************************)
C20_LegacyMigratedOnce ==
    starts >= 1 =>
        \A n \in DOMAIN legacy :
            StoredTotal(NaturalKey(legacy[n]), LegacyDate(legacy[n]))
                = LegacyTotal(NaturalKey(legacy[n]), LegacyDate(legacy[n]))

(***************************************************************************)
(* C21.  Under any interleaving of concurrent add_activity calls, with     *)
(* any mix of natural keys, no call reaches the "Failed to find/create     *)
(* app" branch: the lookup that follows the committed INSERT OR IGNORE     *)
(* finds a row, and no call ends with HTTP 500.                            *)
(***************************************************************************)
C21_LookupFindsRow ==
    \A w \in Workers :
        /\ status[w] # "500"
        /\ pc[w] \in {"select_log", "write_log"} =>
               /\ app_id[w] \in DOMAIN apps
               /\ apps[app_id[w]] = NaturalKey(activity[w])

\* Two requests with different keys are both past the lookup, each holding
\* the id of its own row.
C21_Witness ==
    /\ \A w \in Workers : pc[w] = "select_log"
    /\ \E v, w \in Workers :
           /\ NaturalKey(activity[v]) # NaturalKey(activity[w])
           /\ app_id[v] # app_id[w]
           /\ app_id[v] # 0
           /\ app_id[w] # 0

C23_OwnRowsOnly ==
    [][/\ tracked_identifiers' = tracked_identifiers
       /\ \/ apps' = apps
          \/ \E w \in Workers :
                 /\ pc[w] \in {"idle", "done"}
                 /\ pc'[w] = "select_app"
                 /\ \A i \in DOMAIN apps : apps[i] # NaturalKey(activity'[w])
                 /\ apps' = Append(apps, NaturalKey(activity'[w]))
       /\ \/ activity_logs' = activity_logs
          \/ \E w \in Workers :
                 LET own(r) == /\ r.app_id = app_id[w]
                               /\ r.activity_date = activity_date[w]
                 IN /\ pc[w] = "write_log"
                    /\ status'[w] = "success"
                    /\ Len(activity_logs') \in {Len(activity_logs), Len(activity_logs) + 1}
                    /\ \A i \in DOMAIN activity_logs :
                           IF own(activity_logs[i]) THEN own(activity_logs'[i])
                           ELSE activity_logs'[i] = activity_logs[i]
                    /\ Cardinality({i \in DOMAIN activity_logs' :
                                        own(activity_logs'[i])}) = 1]_vars

\* A call has succeeded by updating the row of its date while the same app
\* has a row of another date.
C23_Witness ==
    \E w \in Workers :
        /\ pc[w] = "done"
        /\ status[w] = "success"
        /\ \E i, j \in DOMAIN activity_logs :
               /\ activity_logs[i].app_id = app_id[w]
               /\ activity_logs[i].activity_date = activity_date[w]
               /\ activity_logs[i].duration # activity[w].duration
               /\ activity_logs[j].app_id = app_id[w]
               /\ activity_logs[j].activity_date # activity_date[w]

\* The sum of the durations of the first n posts.
RECURSIVE PostedTotal(_, _)
PostedTotal(ps, n) == IF n = 0 THEN 0 ELSE ps[n].duration + PostedTotal(ps, n - 1)

(***************************************************************************)
(* C24.  In the tracker loop at most one session is open: last_app,        *)
(* last_title and start_time are all set or all cleared.  The open         *)
(* session starts at the tick that first observes its window and a post    *)
(* carries the time from that start to the tick that first observes a      *)
(* different window; so the posted sessions do not overlap, and the sum    *)
(* of the durations posted never exceeds the time elapsed since the        *)
(* tracker started.                                                        *)
(***************************************************************************)
C24_SessionsDoNotOverlap ==
    [][/\ (last_app' = <<>>) = (last_title' = <<>>)
       /\ (last_app' = <<>>) = (start_time' = <<>>)
       /\ tracker_pc = "loop" =>
              /\ IF shown' # shown
                 THEN start_time' =
                          IF \/ TRACKED_IDENTIFIERS = <<>>
                             \/ MatchesSome(TRACKED_IDENTIFIERS, shown'[1][1], shown'[1][2])
                          THEN <<now + tz>> ELSE <<>>
                 ELSE start_time' = start_time
              /\ Len(posts') > Len(posts) =>
                     /\ shown' # shown
                     /\ start_time # <<>>
                     /\ posts'[Len(posts')].duration = (now + tz) - start_time[1]
       /\ \A n \in 1..(Len(posts') - 1) :
              posts'[n].started + posts'[n].duration <= posts'[n + 1].started
       /\ PostedTotal(posts', Len(posts')) <= now' - StartTime]_vars

\* Two sessions have been posted, one right after the other, and a third
\* is open.
C24_Witness ==
    /\ Len(posts) >= 2
    /\ posts[1].started + posts[1].duration = posts[2].started
    /\ start_time # <<>>
    /\ PostedTotal(posts, Len(posts)) >= 4

\* The fetch at start has failed and it shows: the registry holds
\* identifiers and the allow-list of the running tracker holds none.
FetchFailed ==
    tracker_pc = "loop" /\ tracked_identifiers # <<>> /\ TRACKED_IDENTIFIERS = <<>>

(***************************************************************************)
(* C25.  The fetch at tracker start leaves the allow-list either with the  *)
(* lower-cased identifiers of the registry or, when it fails, empty; the   *)
(* allow-list never changes during the run; and after a failed fetch the   *)
(* tracker posts every window when it gives way to another, as it does     *)
(* with an empty registry.                                                 *)
(***************************************************************************)
C25_FailedFetchTracksAll ==
    [][/\ tracker_pc = "start" =>
              \/ TRACKED_IDENTIFIERS' = <<>>
              \/ /\ Len(TRACKED_IDENTIFIERS') = Len(tracked_identifiers)
                 /\ \A i \in DOMAIN tracked_identifiers :
                        TRACKED_IDENTIFIERS'[i] = lower(tracked_identifiers[i])
       /\ tracker_pc = "loop" => TRACKED_IDENTIFIERS' = TRACKED_IDENTIFIERS
       /\ (FetchFailed \/ (tracker_pc = "loop" /\ tracked_identifiers = <<>>)) =>
              /\ TRACKED_IDENTIFIERS = <<>>
              /\ (shown # <<>> /\ shown' # shown) =>
                     /\ Len(posts') = Len(posts) + 1
                     /\ posts'[Len(posts')].app_name = shown[1][1]
                     /\ posts'[Len(posts')].window_title = shown[1][2]]_vars

\* After a failed fetch a window that matches no identifier of the registry
\* has been posted.
C25_Witness ==
    /\ FetchFailed
    /\ \E n \in DOMAIN posts :
           ~MatchesSome(tracked_identifiers, posts[n].app_name, posts[n].window_title)

====
